---- MODULE Spec2Model ----
(***************************************************************************)
(* codex-usage (src/main.rs): credential discovery, the single usage       *)
(* request and the report, as a state machine.                             *)
(*                                                                         *)
(* Texts are TLA+ strings.  Option<T> is a sequence of length 0 (None) or  *)
(* 1 (Some).  Result<T> is a record [ok |-> TRUE, val] or [ok |-> FALSE,   *)
(* err].                                                                   *)
(***************************************************************************)
EXTENDS Integers, Sequences, FiniteSets, TLC

VARIABLES
    env,        \* process environment: variable name -> Option<String>
    files,      \* candidate path -> [exists, readable, raw]
    keychain,   \* service name -> outcome of `security find-generic-password`
    plain,      \* --plain / -p given on the command line
    pc,         \* position of main/run
    creds,      \* Option<Credentials>: the value bound at main.rs:354
    usage,      \* Option<WhamUsage>: the value bound at main.rs:355
    error,      \* Option<error kind>: the Err that run() returned
    probes,     \* trace: every environment/file/secret-store access, in order
    http_log,   \* trace: every request handed to req.send()
    out,        \* trace: what was written to stdout
    errout,     \* trace: what was written to stderr
    exit_code,  \* Option<Int>: the status the process ended with
    response,   \* Option: what the network answered to the request
    ret         \* results of read_auth_json / extract_from_auth applied alone

vars == <<env, files, keychain, plain, pc, creds, usage, error, probes,
          http_log, out, errout, exit_code, response, ret>>

-----------------------------------------------------------------------------
(* Option / Result *)

None == <<>>
Some(x) == <<x>>
IsSome(o) == Len(o) = 1
Unwrap(o) == o[1]
Opt(S) == {None} \cup {Some(x) : x \in S}

Ok(v) == [ok |-> TRUE, val |-> v]
Err(e) == [ok |-> FALSE, err |-> e]

-----------------------------------------------------------------------------
(* Bounds of the model *)

\* longest run of whitespace placed around (or instead of) a token
MaxPad == 1

-----------------------------------------------------------------------------
(* str::trim, str::is_empty *)

Whitespace == {" ", "\n", "\t"}

RECURSIVE TrimStart(_)
TrimStart(s) ==
    IF Len(s) > 0 /\ SubSeq(s, 1, 1) \in Whitespace
    THEN TrimStart(SubSeq(s, 2, Len(s)))
    ELSE s

RECURSIVE TrimEnd(_)
TrimEnd(s) ==
    IF Len(s) > 0 /\ SubSeq(s, Len(s), Len(s)) \in Whitespace
    THEN TrimEnd(SubSeq(s, 1, Len(s) - 1))
    ELSE s

Trim(s) == TrimEnd(TrimStart(s))

IsEmpty(s) == Len(s) = 0

RECURSIVE Spaces(_)
Spaces(n) == IF n = 0 THEN "" ELSE " " \o Spaces(n - 1)

-----------------------------------------------------------------------------
(* Auth / credential types *)

TokenBlock(access_token, account_id) ==
    [access_token |-> access_token, account_id |-> account_id]

AuthDotJson(tokens, openai_api_key) ==
    [tokens |-> tokens, openai_api_key |-> openai_api_key]

Credentials(access_token, account_id, is_oauth) ==
    [access_token |-> access_token, account_id |-> account_id,
     is_oauth |-> is_oauth]

-----------------------------------------------------------------------------
(* serde_json::from_str::<AuthDotJson>: the documents the model knows, as    *)
(* text.  A text is parsed by finding the structure it is the encoding of;   *)
(* any other text is a parse error.                                          *)

Quote(s) == "\"" \o s \o "\""

Field(name, o) == IF IsSome(o) THEN <<Quote(name) \o ":" \o Quote(Unwrap(o))>> ELSE <<>>

RECURSIVE Join(_)
Join(parts) ==
    IF parts = <<>> THEN ""
    ELSE IF Len(parts) = 1 THEN parts[1]
    ELSE parts[1] \o "," \o Join(Tail(parts))

EncodeTokenBlock(t) ==
    "{" \o Join(Field("access_token", t.access_token)
                \o Field("account_id", t.account_id)) \o "}"

EncodeAuth(a) ==
    "{" \o Join((IF IsSome(a.tokens)
                 THEN <<Quote("tokens") \o ":" \o EncodeTokenBlock(Unwrap(a.tokens))>>
                 ELSE <<>>)
                \o Field("OPENAI_API_KEY", a.openai_api_key)) \o "}"

\* The parsed structures a source tagged `tag` may hold.
BlankStrings == {Spaces(n) : n \in 0..MaxPad}

DocEmpty == AuthDotJson(None, None)
DocOAuth(tag) ==
    AuthDotJson(Some(TokenBlock(Some("oat-" \o tag), Some("acct-" \o tag))), None)
DocKey(tag) == AuthDotJson(None, Some("sk-" \o tag))
DocBoth(tag) ==
    AuthDotJson(Some(TokenBlock(Some("oat-" \o tag), None)), Some("sk-" \o tag))
DocBlankToken(b) == AuthDotJson(Some(TokenBlock(Some(b), Some("acct-blank"))), None)
DocBlankTokenKey(b, tag) ==
    AuthDotJson(Some(TokenBlock(Some(b), None)), Some("sk-" \o tag))
DocBlankKey(b) == AuthDotJson(Some(TokenBlock(None, Some("acct-blank"))), Some(b))
DocKeyBesideBlock(tag) == AuthDotJson(Some(TokenBlock(None, None)), Some("sk-" \o tag))

DocsOf(tag) ==
    {DocEmpty, DocOAuth(tag), DocKey(tag), DocBoth(tag), DocKeyBesideBlock(tag)}
    \cup {DocBlankToken(b) : b \in BlankStrings}
    \cup {DocBlankTokenKey(b, tag) : b \in BlankStrings}
    \cup {DocBlankKey(b) : b \in BlankStrings}

SourceTags == {"f1", "f2", "k1", "k2", "k3", "k4"}

AuthStructs == UNION {DocsOf(tag) : tag \in SourceTags}

AuthDocTable == [a \in AuthStructs |-> EncodeAuth(a)]

ParseResult(matches) ==
    IF matches = {} THEN Err("parse") ELSE Ok(CHOOSE a \in matches : TRUE)

ParseAuthDotJson(raw) == ParseResult({a \in AuthStructs : AuthDocTable[a] = raw})

-----------------------------------------------------------------------------
(* Credential discovery.  Every operator returns [res, log]: the Result and  *)
(* the accesses it made, in order.                                           *)

candidates == <<"~/.codex/auth.json", "~/.config/codex/auth.json">>

service_names == <<"Codex", "codex", "openai-codex", "Codex CLI">>

\* main.rs:127-148: the credential of a parsed auth.json
read_auth_json_extract(auth) ==
    IF /\ IsSome(auth.tokens)
       /\ IsSome(Unwrap(auth.tokens).access_token)
       /\ ~IsEmpty(Unwrap(Unwrap(auth.tokens).access_token))
    THEN Ok(Credentials(Unwrap(Unwrap(auth.tokens).access_token),
                        Unwrap(auth.tokens).account_id, TRUE))
    ELSE IF IsSome(auth.openai_api_key) /\ ~IsEmpty(Unwrap(auth.openai_api_key))
    THEN Ok(Credentials(Unwrap(auth.openai_api_key), None, FALSE))
    ELSE Err("auth.json found but contained no usable token")

\* main.rs:124-148: the outcome of the parse, then the extraction
read_auth_json_parsed(auth) ==
    IF ~auth.ok THEN Err("Could not parse") ELSE read_auth_json_extract(auth.val)

read_auth_json(path) ==
    IF ~files[path].readable THEN Err("Could not read")
    ELSE read_auth_json_parsed(ParseAuthDotJson(Trim(files[path].raw)))

\* mutant: the plain key is preferred to the OAuth token
extract_from_auth_key_first(auth) ==
    IF IsSome(auth.openai_api_key) /\ ~IsEmpty(Unwrap(auth.openai_api_key))
    THEN Ok(Credentials(Unwrap(auth.openai_api_key), None, FALSE))
    ELSE IF /\ IsSome(auth.tokens)
            /\ IsSome(Unwrap(auth.tokens).access_token)
            /\ ~IsEmpty(Unwrap(Unwrap(auth.tokens).access_token))
    THEN Ok(Credentials(Unwrap(Unwrap(auth.tokens).access_token),
                        Unwrap(auth.tokens).account_id, TRUE))
    ELSE Err("no usable token in auth structure")

extract_from_auth(auth) ==
    IF /\ IsSome(auth.tokens)
       /\ IsSome(Unwrap(auth.tokens).access_token)
       /\ ~IsEmpty(Unwrap(Unwrap(auth.tokens).access_token))
    THEN Ok(Credentials(Unwrap(Unwrap(auth.tokens).access_token),
                        Unwrap(auth.tokens).account_id, TRUE))
    ELSE IF IsSome(auth.openai_api_key) /\ ~IsEmpty(Unwrap(auth.openai_api_key))
    THEN Ok(Credentials(Unwrap(auth.openai_api_key), None, FALSE))
    ELSE Err("no usable token in auth structure")

\* main.rs:159-175: what one alias's lookup gives; None is a miss
\* the accesses `log`, then whatever `r` did
Then(log, r) == [res |-> r.res, log |-> log \o r.log]

\* main.rs:164-165: the blob's credential, if the text is a blob that has one
keychain_blob(auth) == IF auth.ok THEN extract_from_auth(auth.val) ELSE auth

\* main.rs:164-174
keychain_credentials(raw, blob) ==
    IF blob.ok THEN blob.val ELSE Credentials(raw, None, TRUE)

\* main.rs:161-175
keychain_text(raw) ==
    IF ~IsEmpty(raw)
    THEN Some(keychain_credentials(raw, keychain_blob(ParseAuthDotJson(raw))))
    ELSE None

\* mutant: the output is never tried as a structured blob
keychain_value_raw_only(output) ==
    IF output.spawned /\ output.success /\ ~IsEmpty(Trim(output.stdout))
    THEN Some(Credentials(Trim(output.stdout), None, TRUE))
    ELSE None

\* main.rs:158-177: what one alias's lookup gives; None is a miss
keychain_value(output) ==
    IF output.spawned /\ output.success
    THEN keychain_text(Trim(output.stdout))
    ELSE None

\* main.rs:158-177: return at a hit, go on to the next alias at a miss
keychain_step(call, found, rest) ==
    IF IsSome(found) THEN [res |-> Ok(Unwrap(found)), log |-> call]
    ELSE Then(call, rest)

RECURSIVE read_keychain_from(_)
read_keychain_from(i) ==
    IF i > Len(service_names)
    THEN [res |-> Err("Codex credentials not found in macOS Keychain"),
          log |-> <<>>]
    ELSE keychain_step(<<"security:" \o service_names[i]>>,
                       keychain_value(keychain[service_names[i]]),
                       read_keychain_from(i + 1))

read_keychain == read_keychain_from(1)

\* main.rs:105-118
keychain_or_bail(kc) ==
    IF kc.res.ok THEN kc ELSE [res |-> Err("NoCredentialFound"), log |-> kc.log]

\* main.rs:98-100: return the file's credential, or go on
file_step(seen, file, rest) ==
    IF file.ok THEN [res |-> file, log |-> seen] ELSE Then(seen, rest)

RECURSIVE get_credentials_files(_)
\* mutant: a file that cannot be used ends the search (`?` in place of `if let Ok`)
get_credentials_files_abort(i) ==
    IF i > Len(candidates) THEN keychain_or_bail(read_keychain)
    ELSE IF files[candidates[i]].exists
    THEN [res |-> read_auth_json(candidates[i]),
          log |-> <<"exists:" \o candidates[i], "read:" \o candidates[i]>>]
    ELSE Then(<<"exists:" \o candidates[i]>>, get_credentials_files(i + 1))

get_credentials_files(i) ==
    IF i > Len(candidates) THEN keychain_or_bail(read_keychain)
    ELSE IF files[candidates[i]].exists
    THEN file_step(<<"exists:" \o candidates[i], "read:" \o candidates[i]>>,
                   read_auth_json(candidates[i]),
                   get_credentials_files(i + 1))
    ELSE Then(<<"exists:" \o candidates[i]>>, get_credentials_files(i + 1))

\* main.rs:67, 78: the variable is set and not blank
env_set(name) == IsSome(env[name]) /\ ~IsEmpty(Trim(Unwrap(env[name])))

\* mutant: the API-key variable is looked at and passed over
get_credentials_api_key_ignored ==
    Then(<<"env:OPENAI_API_KEY">>, get_credentials_files(1))

get_credentials_api_key ==
    IF env_set("OPENAI_API_KEY")
    THEN [res |-> Ok(Credentials(Trim(Unwrap(env["OPENAI_API_KEY"])), None, FALSE)),
          log |-> <<"env:OPENAI_API_KEY">>]
    ELSE Then(<<"env:OPENAI_API_KEY">>, get_credentials_files(1))

\* mutant: the order of the doc comment at main.rs:59-64, API key first
get_credentials_key_first ==
    IF env_set("OPENAI_API_KEY")
    THEN [res |-> Ok(Credentials(Trim(Unwrap(env["OPENAI_API_KEY"])), None, FALSE)),
          log |-> <<"env:OPENAI_API_KEY">>]
    ELSE IF env_set("CODEX_ACCESS_TOKEN")
    THEN [res |-> Ok(Credentials(Trim(Unwrap(env["CODEX_ACCESS_TOKEN"])),
                                 env["CODEX_ACCOUNT_ID"], TRUE)),
          log |-> <<"env:OPENAI_API_KEY", "env:CODEX_ACCESS_TOKEN",
                    "env:CODEX_ACCOUNT_ID">>]
    ELSE Then(<<"env:OPENAI_API_KEY", "env:CODEX_ACCESS_TOKEN">>,
              get_credentials_files(1))

get_credentials ==
    IF env_set("CODEX_ACCESS_TOKEN")
    THEN [res |-> Ok(Credentials(Trim(Unwrap(env["CODEX_ACCESS_TOKEN"])),
                                 env["CODEX_ACCOUNT_ID"], TRUE)),
          log |-> <<"env:CODEX_ACCESS_TOKEN", "env:CODEX_ACCOUNT_ID">>]
    ELSE Then(<<"env:CODEX_ACCESS_TOKEN">>, get_credentials_api_key)

-----------------------------------------------------------------------------
(* API response types and serde_json::from_str::<WhamUsage>                  *)

RateWindow(used_percent, reset_after_seconds) ==
    [used_percent |-> used_percent, reset_after_seconds |-> reset_after_seconds]

RateLimit(primary_window, secondary_window, limit_reached) ==
    [primary_window |-> primary_window, secondary_window |-> secondary_window,
     limit_reached |-> limit_reached]

WhamUsage(plan_type, rate_limit) ==
    [plan_type |-> plan_type, rate_limit |-> rate_limit]

NumField(name, o) ==
    IF IsSome(o) THEN <<Quote(name) \o ":" \o ToString(Unwrap(o))>> ELSE <<>>

BoolField(name, o) ==
    IF IsSome(o)
    THEN <<Quote(name) \o ":" \o (IF Unwrap(o) THEN "true" ELSE "false")>>
    ELSE <<>>

EncodeWindow(name, o) ==
    IF IsSome(o)
    THEN <<Quote(name) \o ":{"
           \o Join(NumField("used_percent", Unwrap(o).used_percent)
                   \o NumField("reset_after_seconds", Unwrap(o).reset_after_seconds))
           \o "}">>
    ELSE <<>>

EncodeUsage(u) ==
    "{" \o Join(Field("plan_type", u.plan_type)
                \o (IF IsSome(u.rate_limit)
                    THEN <<Quote("rate_limit") \o ":{"
                           \o Join(EncodeWindow("primary_window",
                                                Unwrap(u.rate_limit).primary_window)
                                   \o EncodeWindow("secondary_window",
                                                   Unwrap(u.rate_limit).secondary_window)
                                   \o BoolField("limit_reached",
                                                Unwrap(u.rate_limit).limit_reached))
                           \o "}">>
                    ELSE <<>>)) \o "}"

\* The snapshots the modelled server sends as well-formed bodies.
WireUsages ==
    { WhamUsage(None, None),
      WhamUsage(Some("pro"),
                Some(RateLimit(Some(RateWindow(Some(45), Some(3600))),
                               None, Some(FALSE)))) }

UsageDocTable == [u \in WireUsages |-> EncodeUsage(u)]

ParseWhamUsage(text) == ParseResult({u \in WireUsages : UsageDocTable[u] = text})

-----------------------------------------------------------------------------
(* API call.  `net` is what the network does with the one request:           *)
(* [sent, status, body, readable]: whether send() returned a response, its   *)
(* status, the body the server wrote, and whether text() can read it.        *)

is_success(status) == 200 <= status /\ status <= 299

Request(c) ==
    [url |-> "https://chatgpt.com/backend-api/wham/usage",
     authorization |-> "Bearer " \o c.access_token,
     chatgpt_account_id |-> c.account_id]

\* mutant: 403 is an ordinary API error
is_unauthorized_401_only(status) == status = 401

\* main.rs:235
is_unauthorized(status) == status = 401 \/ status = 403

\* main.rs:247-249
fetch_usage_parsed(text, parsed) ==
    IF parsed.ok THEN parsed
    ELSE Err([kind |-> "MalformedResponse", raw |-> text])

\* main.rs:233-250: what fetch_usage returns for a response
fetch_usage_response(net) ==
    IF is_unauthorized(net.status)
    THEN Err([kind |-> "Unauthorized", status |-> net.status])
    ELSE IF ~is_success(net.status)
    THEN Err([kind |-> "ApiError", status |-> net.status,
              body |-> IF net.readable THEN net.body ELSE ""])
    ELSE IF ~net.readable THEN Err([kind |-> "BodyReadFailed"])
    ELSE fetch_usage_parsed(net.body, ParseWhamUsage(net.body))

\* main.rs:217-250: the request and the handling of what comes back
fetch_usage_send(c, net) ==
    [res |-> IF ~net.sent THEN Err([kind |-> "SendFailed"])
             ELSE fetch_usage_response(net),
     requests |-> <<Request(c)>>]

\* mutant: the request is made whatever the kind of credential
fetch_usage_no_guard(c, net) == fetch_usage_send(c, net)

fetch_usage(c, net) ==
    IF ~c.is_oauth
    THEN [res |-> Err([kind |-> "ApiKeyUnsupported"]), requests |-> <<>>]
    ELSE fetch_usage_send(c, net)

-----------------------------------------------------------------------------
(* Display.  A line of output is a record with its kind and what it shows.   *)

Lower == "abcdefghijklmnopqrstuvwxyz"
Upper == "ABCDEFGHIJKLMNOPQRSTUVWXYZ"

UpperChar(c) ==
    IF \E i \in 1..Len(Lower) : SubSeq(Lower, i, i) = c
    THEN LET i == CHOOSE i \in 1..Len(Lower) : SubSeq(Lower, i, i) = c
         IN  SubSeq(Upper, i, i)
    ELSE c

RECURSIVE to_uppercase(_)
to_uppercase(s) ==
    IF Len(s) = 0 THEN ""
    ELSE UpperChar(SubSeq(s, 1, 1)) \o to_uppercase(SubSeq(s, 2, Len(s)))

UnwrapOr(o, d) == IF IsSome(o) THEN Unwrap(o) ELSE d

Min(a, b) == IF a <= b THEN a ELSE b
Max(a, b) == IF a >= b THEN a ELSE b

\* main.rs:300-332: the line of one window, in either mode
print_window(label, window) ==
    IF ~IsSome(window)
    THEN [kind |-> "window", label |-> label, available |-> FALSE]
    ELSE [kind |-> "window", label |-> label, available |-> TRUE,
          pct |-> Min(UnwrapOr(Unwrap(window).used_percent, 0), 100),
          reset |-> Unwrap(window).reset_after_seconds]

primary_of(u) ==
    IF IsSome(u.rate_limit) THEN Unwrap(u.rate_limit).primary_window ELSE None

secondary_of(u) ==
    IF IsSome(u.rate_limit) THEN Unwrap(u.rate_limit).secondary_window ELSE None

limit_reached_of(u) ==
    IF IsSome(u.rate_limit) THEN UnwrapOr(Unwrap(u.rate_limit).limit_reached, FALSE)
    ELSE FALSE

RECURSIVE FoldMax(_, _)
FoldMax(acc, xs) ==
    IF xs = <<>> THEN acc ELSE FoldMax(Max(acc, Head(xs)), Tail(xs))

\* main.rs:407-410
highest_of(u) ==
    LET used(w) == IF IsSome(w) THEN <<UnwrapOr(Unwrap(w).used_percent, 0)>> ELSE <<>>
    IN  FoldMax(0, used(primary_of(u)) \o used(secondary_of(u)))

\* mutant: the boundaries 90 and 70 are exclusive
summary_line_exclusive(u) ==
    IF limit_reached_of(u) \/ highest_of(u) >= 100
    THEN [kind |-> "summary", tier |-> "limit reached"]
    ELSE IF highest_of(u) > 90
    THEN [kind |-> "summary", tier |-> "nearly at limit"]
    ELSE IF highest_of(u) > 70
    THEN [kind |-> "summary", tier |-> "elevated"]
    ELSE [kind |-> "summary", tier |-> "plenty of capacity"]

\* main.rs:412-432
summary_line(u) ==
    IF limit_reached_of(u) \/ highest_of(u) >= 100
    THEN [kind |-> "summary", tier |-> "limit reached"]
    ELSE IF highest_of(u) >= 90
    THEN [kind |-> "summary", tier |-> "nearly at limit"]
    ELSE IF highest_of(u) >= 70
    THEN [kind |-> "summary", tier |-> "elevated"]
    ELSE [kind |-> "summary", tier |-> "plenty of capacity"]

plan_of(u) == to_uppercase(UnwrapOr(u.plan_type, "unknown"))

\* main.rs:364-373
render_plain(u) ==
    <<[kind |-> "plan", plan |-> plan_of(u)],
      print_window("5hr window", primary_of(u)),
      print_window("7day window", secondary_of(u))>>
    \o (IF limit_reached_of(u) THEN <<[kind |-> "status"]>> ELSE <<>>)

\* main.rs:375-435
render_fancy(u) ==
    <<[kind |-> "clear"],
      [kind |-> "plan", plan |-> plan_of(u)],
      [kind |-> "rule"],
      print_window("5-hour session", primary_of(u)),
      print_window("7-day rolling", secondary_of(u)),
      [kind |-> "rule"],
      summary_line(u),
      [kind |-> "blank"]>>

ReportKinds == {"plan", "window", "summary", "status"}

-----------------------------------------------------------------------------
(* main and run, one action per stage *)

\* main.rs:344-352
RunStart ==
    /\ pc = "start"
    /\ out' = IF plain THEN out
              ELSE out \o <<[kind |-> "blank"], [kind |-> "indicator"]>>
    /\ pc' = "get_credentials"
    /\ UNCHANGED <<env, files, keychain, plain, creds, usage, error, probes,
                   http_log, errout, exit_code, response, ret>>

\* main.rs:354
GetCredentials ==
    /\ pc = "get_credentials"
    /\ \E r \in {get_credentials} :
         /\ probes' = probes \o r.log
         /\ IF r.res.ok
            THEN /\ creds' = Some(r.res.val)
                 /\ pc' = "fetch_usage"
                 /\ error' = error
            ELSE /\ creds' = creds
                 /\ pc' = "failed"
                 /\ error' = Some([kind |-> r.res.err])
    /\ UNCHANGED <<env, files, keychain, plain, usage, http_log, out, errout,
                   exit_code, response, ret>>

Statuses == {200, 204, 302, 401, 403, 500}

BodyTexts == {UsageDocTable[u] : u \in WireUsages} \cup {"not json"}

NetworkOutcomes ==
    {[sent |-> FALSE]}
    \cup {[sent |-> TRUE, status |-> s, body |-> b, readable |-> r] :
            s \in Statuses, b \in BodyTexts, r \in BOOLEAN}

\* main.rs:355
FetchUsage ==
    /\ pc = "fetch_usage"
    /\ \E net \in NetworkOutcomes :
         \E r \in {fetch_usage(Unwrap(creds), net)} :
             /\ http_log' = http_log \o r.requests
             /\ response' = IF r.requests = <<>> THEN response ELSE Some(net)
             /\ IF r.res.ok
                THEN /\ usage' = Some(r.res.val)
                     /\ pc' = "render"
                     /\ error' = error
                ELSE /\ usage' = usage
                     /\ pc' = "failed"
                     /\ error' = Some(r.res.err)
    /\ UNCHANGED <<env, files, keychain, plain, creds, probes, out, errout,
                   exit_code, ret>>

\* main.rs:357-435, then main returns
Render ==
    /\ pc = "render"
    /\ out' = out \o (IF plain THEN render_plain(Unwrap(usage))
                      ELSE render_fancy(Unwrap(usage)))
    /\ pc' = "exited"
    /\ exit_code' = Some(0)
    /\ UNCHANGED <<env, files, keychain, plain, creds, usage, error, probes,
                   http_log, errout, response, ret>>

\* mutant: the error is printed and main returns (no process::exit(1))
MainError_returns ==
    /\ pc = "failed"
    /\ errout' = errout \o <<[kind |-> "error", error |-> Unwrap(error)]>>
    /\ pc' = "exited"
    /\ exit_code' = Some(0)
    /\ UNCHANGED <<env, files, keychain, plain, creds, usage, error, probes,
                   http_log, out, response, ret>>

\* main.rs:337-340
MainError ==
    /\ pc = "failed"
    /\ errout' = errout \o <<[kind |-> "error", error |-> Unwrap(error)]>>
    /\ pc' = "exited"
    /\ exit_code' = Some(1)
    /\ UNCHANGED <<env, files, keychain, plain, creds, usage, error, probes,
                   http_log, out, response, ret>>

-----------------------------------------------------------------------------
(* The environment a run starts in *)

Missing == [exists |-> FALSE, readable |-> FALSE, raw |-> ""]
Unreadable == [exists |-> TRUE, readable |-> FALSE, raw |-> ""]
TextFile(raw) == [exists |-> TRUE, readable |-> TRUE, raw |-> raw]

SpawnFailed == [spawned |-> FALSE, success |-> FALSE, stdout |-> ""]
ExitNonZero == [spawned |-> TRUE, success |-> FALSE, stdout |-> ""]
Succeeded(stdout) == [spawned |-> TRUE, success |-> TRUE, stdout |-> stdout]

\* a text as a user or a tool leaves it: padded, newline-terminated
Padded(s) == Spaces(MaxPad) \o s \o "\n"

Environment(access_token, account_id, api_key) ==
    [CODEX_ACCESS_TOKEN |-> access_token, CODEX_ACCOUNT_ID |-> account_id,
     OPENAI_API_KEY |-> api_key]

FileTag(i) == IF i = 1 THEN "f1" ELSE "f2"
KeychainTag(j) == CASE j = 1 -> "k1" [] j = 2 -> "k2" [] j = 3 -> "k3" [] OTHER -> "k4"

FileSystems(primary, secondary) ==
    {(candidates[1] :> f1) @@ (candidates[2] :> f2) :
        f1 \in primary, f2 \in secondary}

Keychains(outcomes1, outcomes2, outcomes3, outcomes4) ==
    {(service_names[1] :> o1) @@ (service_names[2] :> o2)
     @@ (service_names[3] :> o3) @@ (service_names[4] :> o4) :
        o1 \in outcomes1, o2 \in outcomes2, o3 \in outcomes3, o4 \in outcomes4}

Fresh ==
    /\ creds = None
    /\ usage = None
    /\ error = None
    /\ probes = <<>>
    /\ http_log = <<>>
    /\ out = <<>>
    /\ errout = <<>>
    /\ exit_code = None
    /\ response = None
    /\ ret = <<>>

-----------------------------------------------------------------------------
(* Spec: whole runs of the program *)

RunEnvs ==
    {Environment(t, a, k) :
        t \in {None, Some(Spaces(MaxPad)), Some(Padded("oat-env"))},
        a \in {None, Some("acct-env")},
        k \in {None, Some("sk-env")}}

RunFileContents(i) ==
    {Missing,
     TextFile(EncodeAuth(DocKey(FileTag(i)))),
     TextFile(EncodeAuth(DocOAuth(FileTag(i))) \o "\n")}

RunKeychainOutcomes(j) == {ExitNonZero, Succeeded(Padded("oat-" \o KeychainTag(j)))}

Init ==
    /\ env \in RunEnvs
    /\ files \in FileSystems(RunFileContents(1), RunFileContents(2))
    /\ keychain \in Keychains(RunKeychainOutcomes(1), RunKeychainOutcomes(2), RunKeychainOutcomes(3), RunKeychainOutcomes(4))
    /\ plain \in BOOLEAN
    /\ pc = "start"
    /\ Fresh

Next == RunStart \/ GetCredentials \/ FetchUsage \/ Render \/ MainError

Spec == Init /\ [][Next]_vars

-----------------------------------------------------------------------------
(* SpecResolve: get_credentials over every combination of its sources *)

ResolveEnvs ==
    {Environment(t, a, k) :
        t \in {None, Some(Padded("oat-env"))} \cup Opt(BlankStrings),
        a \in {None, Some("acct-env")},
        k \in {None, Some(Padded("sk-env"))} \cup Opt(BlankStrings)}

ResolveFileContents(i) ==
    {Missing, Unreadable, TextFile("not json"),
     TextFile(EncodeAuth(DocEmpty)),
     TextFile(EncodeAuth(DocKey(FileTag(i)))),
     TextFile(EncodeAuth(DocOAuth(FileTag(i))) \o "\n"),
     TextFile(EncodeAuth(DocBlankToken(Spaces(MaxPad))))}

ResolveKeychainOutcomes(j) ==
    {ExitNonZero, Succeeded(Padded("oat-" \o KeychainTag(j)))}

ResolveInit ==
    /\ env \in ResolveEnvs
    /\ files \in FileSystems(ResolveFileContents(1), ResolveFileContents(2))
    /\ keychain \in Keychains(ResolveKeychainOutcomes(1), ResolveKeychainOutcomes(2), ResolveKeychainOutcomes(3), ResolveKeychainOutcomes(4))
    /\ plain = TRUE
    /\ pc = "get_credentials"
    /\ Fresh

SpecResolve == ResolveInit /\ [][GetCredentials]_vars

-----------------------------------------------------------------------------
(* SpecKeychain: get_credentials when only the secret store can answer *)

KeychainOutcomes(j) ==
    {SpawnFailed, ExitNonZero}
    \cup {Succeeded(b \o "\n") : b \in BlankStrings}
    \cup {Succeeded(EncodeAuth(DocBlankToken(b))) : b \in BlankStrings}
    \cup {Succeeded(Padded("oat-" \o KeychainTag(j))),
          Succeeded(Padded("not json")),
          Succeeded(Padded(EncodeAuth(DocOAuth(KeychainTag(j))))),
          Succeeded(Padded(EncodeAuth(DocKey(KeychainTag(j))))),
          Succeeded(Padded(EncodeAuth(DocBoth(KeychainTag(j))))),
          Succeeded(Padded(EncodeAuth(DocEmpty)))}

KeychainInit ==
    /\ env = Environment(None, None, None)
    /\ files \in FileSystems({Missing}, {Missing})
    /\ keychain \in Keychains(KeychainOutcomes(1), KeychainOutcomes(2), KeychainOutcomes(3), KeychainOutcomes(4))
    /\ plain = TRUE
    /\ pc = "get_credentials"
    /\ Fresh

SpecKeychain == KeychainInit /\ [][GetCredentials]_vars

-----------------------------------------------------------------------------
(* SpecExtract: read_auth_json and extract_from_auth on the same structure *)

ExtractInit ==
    /\ \E a \in AuthStructs :
         /\ files = (candidates[1] :> TextFile(Padded(EncodeAuth(a))))
                    @@ (candidates[2] :> Missing)
         /\ ret = [auth |-> a, read_auth_json |-> None, extract_from_auth |-> None]
    /\ env = Environment(None, None, None)
    /\ keychain \in Keychains({ExitNonZero}, {ExitNonZero}, {ExitNonZero}, {ExitNonZero})
    /\ plain = TRUE
    /\ pc = "get_credentials"
    /\ creds = None
    /\ usage = None
    /\ error = None
    /\ probes = <<>>
    /\ http_log = <<>>
    /\ out = <<>>
    /\ errout = <<>>
    /\ exit_code = None
    /\ response = None

ApplyReadAuthJson ==
    /\ ret.read_auth_json = None
    /\ ret' = [ret EXCEPT !.read_auth_json = Some(read_auth_json(candidates[1]))]
    /\ UNCHANGED <<env, files, keychain, plain, pc, creds, usage, error, probes,
                   http_log, out, errout, exit_code, response>>

ApplyExtractFromAuth ==
    /\ ret.extract_from_auth = None
    /\ ret' = [ret EXCEPT !.extract_from_auth = Some(extract_from_auth(ret.auth))]
    /\ UNCHANGED <<env, files, keychain, plain, pc, creds, usage, error, probes,
                   http_log, out, errout, exit_code, response>>

ExtractNext == ApplyReadAuthJson \/ ApplyExtractFromAuth

SpecExtract == ExtractInit /\ [][ExtractNext]_vars

-----------------------------------------------------------------------------
(* SpecRender: the report of every snapshot, in both modes *)

\* largest used_percent a snapshot carries (above the 0-100 range)
MaxUsedPercent == 101

PercentValues == {-1, 0, 69, 70, 71, 89, 90, 91, 99, 100, MaxUsedPercent}

RenderWindows ==
    Opt({RateWindow(p, Some(3600)) : p \in Opt(PercentValues)})

RenderUsages ==
    {WhamUsage(Some("plus"), None)}
    \cup {WhamUsage(Some("plus"), Some(RateLimit(p, s, l))) :
            p \in RenderWindows, s \in RenderWindows, l \in Opt(BOOLEAN)}

RenderInit ==
    /\ env = Environment(Some("oat-env"), None, None)
    /\ files \in FileSystems({Missing}, {Missing})
    /\ keychain \in Keychains({ExitNonZero}, {ExitNonZero}, {ExitNonZero}, {ExitNonZero})
    /\ plain \in BOOLEAN
    /\ pc = "render"
    /\ creds = Some(Credentials("oat-env", None, TRUE))
    /\ \E u \in RenderUsages :
         /\ usage = Some(u)
         /\ response = Some([sent |-> TRUE, status |-> 200,
                             body |-> EncodeUsage(u), readable |-> TRUE])
    /\ error = None
    /\ probes = <<"env:CODEX_ACCESS_TOKEN", "env:CODEX_ACCOUNT_ID">>
    /\ http_log = <<Request(Unwrap(creds))>>
    /\ out = IF plain THEN <<>> ELSE <<[kind |-> "blank"], [kind |-> "indicator"]>>
    /\ errout = <<>>
    /\ exit_code = None
    /\ ret = <<>>

SpecRender == RenderInit /\ [][Render]_vars

-----------------------------------------------------------------------------
(* What each source holds on its own, in the order of get_credentials:       *)
(* 1 CODEX_ACCESS_TOKEN, 2 OPENAI_API_KEY, 3 ~/.codex/auth.json,             *)
(* 4 ~/.config/codex/auth.json, 5 the secret store.                          *)

Sources == 1..5

EnvValue(name) ==
    IF IsSome(env[name]) /\ Trim(Unwrap(env[name])) # ""
    THEN Some(Trim(Unwrap(env[name])))
    ELSE None

FileYield(i) ==
    IF files[candidates[i]].exists /\ read_auth_json(candidates[i]).ok
    THEN Some(read_auth_json(candidates[i]).val)
    ELSE None

SourceYield(s) ==
    CASE s = 1 -> IF IsSome(EnvValue("CODEX_ACCESS_TOKEN"))
                  THEN Some(Credentials(Unwrap(EnvValue("CODEX_ACCESS_TOKEN")),
                                        env["CODEX_ACCOUNT_ID"], TRUE))
                  ELSE None
      [] s = 2 -> IF IsSome(EnvValue("OPENAI_API_KEY"))
                  THEN Some(Credentials(Unwrap(EnvValue("OPENAI_API_KEY")), None, FALSE))
                  ELSE None
      [] s = 3 -> FileYield(1)
      [] s = 4 -> FileYield(2)
      [] OTHER -> IF \E j \in 1..Len(service_names) :
                        IsSome(keychain_value(keychain[service_names[j]]))
                  THEN LET j == CHOOSE j \in 1..Len(service_names) :
                                  /\ IsSome(keychain_value(keychain[service_names[j]]))
                                  /\ \A h \in 1..(j - 1) :
                                       ~IsSome(keychain_value(keychain[service_names[h]]))
                       IN  keychain_value(keychain[service_names[j]])
                  ELSE None

\* the source an access recorded in `probes` belongs to
SourceOfProbe(p) ==
    CASE p \in {"env:CODEX_ACCESS_TOKEN", "env:CODEX_ACCOUNT_ID"} -> 1
      [] p = "env:OPENAI_API_KEY" -> 2
      [] p \in {"exists:" \o candidates[1], "read:" \o candidates[1]} -> 3
      [] p \in {"exists:" \o candidates[2], "read:" \o candidates[2]} -> 4
      [] OTHER -> 5

ProbedSources == {SourceOfProbe(probes[n]) : n \in 1..Len(probes)}

Resolved == pc # "start" /\ pc # "get_credentials"

C2_NeverBlankToken ==
    IsSome(creds) => Trim(Unwrap(creds).access_token) # ""

\* a credential file that exists but cannot be read, cannot be parsed, or
\* parses with neither a usable token nor a usable key
NoUsableField(a) ==
    /\ \/ a.tokens = None
       \/ Unwrap(a.tokens).access_token \in {None, Some("")}
    /\ a.openai_api_key \in {None, Some("")}

FileBroken(i) ==
    /\ files[candidates[i]].exists
    /\ \/ ~files[candidates[i]].readable
       \/ ~ParseAuthDotJson(Trim(files[candidates[i]].raw)).ok
       \/ NoUsableField(ParseAuthDotJson(Trim(files[candidates[i]].raw)).val)

Probed(p) == \E n \in 1..Len(probes) : probes[n] = p

\* C3: a credential file that exists but cannot be read or parsed, or holds no
\* usable field, does not end get_credentials: the secondary file is tried after
\* the primary and the secret store after the secondary, and their credential
\* is returned; get_credentials fails (NoCredentialFound) exactly when every
\* source, all four secret-store aliases included, has missed.
C3_BrokenFileFallsThrough ==
    Resolved =>
      \A yield \in {[s \in Sources |-> SourceYield(s)]} :
          /\ (pc = "failed") <=> (\A s \in Sources : ~IsSome(yield[s]))
          /\ pc = "failed" =>
               /\ error = Some([kind |-> "NoCredentialFound"])
               /\ creds = None
               /\ \A j \in 1..Len(service_names) : Probed("security:" \o service_names[j])
          /\ (~IsSome(yield[1]) /\ ~IsSome(yield[2]) /\ FileBroken(1)) =>
               /\ Probed("exists:" \o candidates[2])
               /\ creds = IF IsSome(yield[4]) THEN yield[4] ELSE yield[5]
          /\ ((\A s \in 1..3 : ~IsSome(yield[s])) /\ FileBroken(2)) =>
               /\ Probed("security:" \o service_names[1])
               /\ creds = yield[5]

\* the primary file parses with no usable field, the secondary cannot be read,
\* and the secret store's credential is returned
C3_Witness ==
    /\ Resolved
    /\ files[candidates[1]] = TextFile(EncodeAuth(DocEmpty))
    /\ files[candidates[2]] = Unreadable
    /\ FileBroken(1) /\ FileBroken(2)
    /\ IsSome(creds)
    /\ creds = SourceYield(5)

-----------------------------------------------------------------------------
(* The secret store *)

AliasMiss(j) ==
    \/ ~keychain[service_names[j]].spawned
    \/ ~keychain[service_names[j]].success
    \/ Trim(keychain[service_names[j]].stdout) = ""

SecurityCall(j) == "security:" \o service_names[j]

IsSecurityCall(p) == \E j \in 1..Len(service_names) : p = SecurityCall(j)

SecurityCalls == SelectSeq(probes, IsSecurityCall)

UsableToken(a) ==
    /\ a.tokens # None
    /\ Unwrap(a.tokens).access_token \notin {None, Some("")}

UsableKey(a) == a.openai_api_key \notin {None, Some("")}

\* the credential the claim gives for the trimmed output `raw` of an alias
BlobOrRaw(raw) ==
    \A parsed \in {ParseAuthDotJson(raw)} :
      IF parsed.ok /\ UsableToken(parsed.val)
      THEN creds = Some(Credentials(Unwrap(Unwrap(parsed.val.tokens).access_token),
                                    Unwrap(parsed.val.tokens).account_id, TRUE))
      ELSE IF parsed.ok /\ UsableKey(parsed.val)
      THEN creds = Some(Credentials(Unwrap(parsed.val.openai_api_key), None, FALSE))
      ELSE creds = Some(Credentials(raw, None, TRUE))

\* C7: read_keychain invokes the aliases "Codex", "codex", "openai-codex",
\* "Codex CLI" in that order; an alias that cannot be spawned, exits non-zero
\* or prints nothing is a miss; the first alias with non-empty output is the
\* last one invoked and decides the result: the blob's OAuth token, else the
\* blob's plain key, else (the text does not parse as such a blob) the text
\* itself as an OAuth token without account id.
C7_KeychainAliases ==
    (Resolved /\ \A s \in 1..4 : ~IsSome(SourceYield(s))) =>
      IF \A j \in 1..Len(service_names) : AliasMiss(j)
      THEN /\ SecurityCalls = [j \in 1..Len(service_names) |-> SecurityCall(j)]
           /\ creds = None
           /\ pc = "failed"
      ELSE \A j \in {CHOOSE j \in 1..Len(service_names) :
                       ~AliasMiss(j) /\ \A h \in 1..(j - 1) : AliasMiss(h)} :
             /\ service_names = <<"Codex", "codex", "openai-codex", "Codex CLI">>
             /\ SecurityCalls = [h \in 1..j |-> SecurityCall(h)]
             /\ BlobOrRaw(Trim(keychain[service_names[j]].stdout))
             /\ ~ParseAuthDotJson(Trim(keychain[service_names[j]].stdout)).ok
                  => creds = Some(Credentials(Trim(keychain[service_names[j]].stdout),
                                              None, TRUE))

\* the first three aliases miss in the three ways, the fourth prints text that
\* is no blob, and that text is the OAuth token
C7_Witness ==
    /\ Resolved
    /\ keychain[service_names[1]] = SpawnFailed
    /\ keychain[service_names[2]] = ExitNonZero
    /\ keychain[service_names[3]] = Succeeded("\n")
    /\ keychain[service_names[4]] = Succeeded(Padded("not json"))
    /\ Len(SecurityCalls) = 4
    /\ creds = Some(Credentials("not json", None, TRUE))

\* a later alias is not invoked once a blob with a token and a key answered
C7_BlobWitness ==
    /\ Resolved
    /\ keychain[service_names[1]] = ExitNonZero
    /\ keychain[service_names[2]] = Succeeded(Padded(EncodeAuth(DocBoth("k2"))))
    /\ ~AliasMiss(3)
    /\ SecurityCalls = <<"security:Codex", "security:codex">>
    /\ creds = Some(Credentials("oat-k2", None, TRUE))

-----------------------------------------------------------------------------
(* One parsed auth structure *)

\* the outcome the rule of the claim gives for structure a
FollowsRule(a, r) ==
    IF UsableToken(a)
    THEN /\ r.ok
         /\ r.val.is_oauth
         /\ Some(r.val.access_token) = Unwrap(a.tokens).access_token
         /\ r.val.account_id = Unwrap(a.tokens).account_id
    ELSE IF UsableKey(a)
    THEN /\ r.ok
         /\ ~r.val.is_oauth
         /\ Some(r.val.access_token) = a.openai_api_key
         /\ r.val.account_id = None
    ELSE ~r.ok

SameOutcome(r1, r2) == r1.ok = r2.ok /\ (r1.ok => r1.val = r2.val)

\* C9: read_auth_json (on a file holding the structure) and extract_from_auth
\* (on the structure) both give: the OAuth credential with the block's
\* account_id when tokens.access_token is present and non-empty, even beside a
\* plain key; otherwise the API-key credential without account id when
\* OPENAI_API_KEY is present and non-empty; otherwise failure. The two
\* outcomes are the same.
C9_ExtractionRule ==
    /\ IsSome(ret.read_auth_json) => FollowsRule(ret.auth, Unwrap(ret.read_auth_json))
    /\ IsSome(ret.extract_from_auth) => FollowsRule(ret.auth, Unwrap(ret.extract_from_auth))
    /\ (IsSome(ret.read_auth_json) /\ IsSome(ret.extract_from_auth))
         => SameOutcome(Unwrap(ret.read_auth_json), Unwrap(ret.extract_from_auth))

\* both functions were applied to a structure with a token and a key and gave
\* the OAuth credential
C9_Witness ==
    /\ ret.auth = DocBoth("f1")
    /\ IsSome(ret.read_auth_json) /\ IsSome(ret.extract_from_auth)
    /\ Unwrap(ret.read_auth_json) = Ok(Credentials("oat-f1", None, TRUE))
    /\ Unwrap(ret.extract_from_auth) = Ok(Credentials("oat-f1", None, TRUE))

-----------------------------------------------------------------------------
(* Whole runs *)

IsReportLine(l) == l.kind \in ReportKinds

ReportLines == SelectSeq(out, IsReportLine)

ApiKeyUnsupported == Some([kind |-> "ApiKeyUnsupported"])

\* C4: fetch_usage on a credential with is_oauth = false sends no request and
\* fails with the API-key-unsupported error; a request is only ever sent
\* with a credential whose is_oauth is true.
C4_NoRequestWithApiKey ==
    /\ http_log # <<>> => (IsSome(creds) /\ Unwrap(creds).is_oauth)
    /\ (IsSome(creds) /\ ~Unwrap(creds).is_oauth /\ pc # "fetch_usage") =>
         /\ http_log = <<>>
         /\ response = None
         /\ usage = None
         /\ error = ApiKeyUnsupported

\* fetch_usage has returned for an API-key credential read from a file
C4_Witness ==
    /\ pc = "failed"
    /\ creds = Some(Credentials("sk-f1", None, FALSE))
    /\ error = ApiKeyUnsupported
    /\ http_log = <<>>

Responded == IsSome(response) /\ Unwrap(response).sent

\* C5 as stated: 401 and 403 give Unauthorized; any other non-2xx status gives
\* ApiError with the status and the response body verbatim; a 2xx status gives
\* the parsed snapshot, or MalformedResponse with the raw body when the body
\* does not parse; never a second request.
C5_StatusMapping ==
    /\ Len(http_log) <= 1
    /\ Responded =>
         \A net \in {Unwrap(response)} :
           IF net.status \in {401, 403}
           THEN error = Some([kind |-> "Unauthorized", status |-> net.status])
           ELSE IF ~(net.status \in 200..299)
           THEN error = Some([kind |-> "ApiError", status |-> net.status,
                              body |-> net.body])
           ELSE IF ParseWhamUsage(net.body).ok
           THEN usage = Some(ParseWhamUsage(net.body).val) /\ error = None
           ELSE error = Some([kind |-> "MalformedResponse", raw |-> net.body])

\* C5, amended: the mapping of C5 holds whenever the response body can be
\* read; when it cannot, 401 and 403 still give Unauthorized, any other non-2xx
\* status gives ApiError with the status and an empty body, and a 2xx status
\* gives a body-read error; never a second request.
C5_StatusMappingReadable ==
    /\ Len(http_log) <= 1
    /\ Responded =>
         \A net \in {Unwrap(response)} :
           IF net.status \in {401, 403}
           THEN error = Some([kind |-> "Unauthorized", status |-> net.status])
           ELSE IF ~(net.status \in 200..299)
           THEN error = Some([kind |-> "ApiError", status |-> net.status,
                              body |-> IF net.readable THEN net.body ELSE ""])
           ELSE IF ~net.readable
           THEN error = Some([kind |-> "BodyReadFailed"]) /\ usage = None
           ELSE IF ParseWhamUsage(net.body).ok
           THEN usage = Some(ParseWhamUsage(net.body).val) /\ error = None
           ELSE error = Some([kind |-> "MalformedResponse", raw |-> net.body])

\* a 403 with a readable body was answered with Unauthorized, after one request
C5_Witness ==
    /\ Responded
    /\ Unwrap(response).status = 403
    /\ Unwrap(response).readable
    /\ Unwrap(response).body = "not json"
    /\ error = Some([kind |-> "Unauthorized", status |-> 403])
    /\ Len(http_log) = 1

\* a 500 with a readable body was answered with ApiError carrying that body
C5_ApiErrorWitness ==
    /\ Responded
    /\ Unwrap(response).status = 500
    /\ Unwrap(response).readable
    /\ error = Some([kind |-> "ApiError", status |-> 500, body |-> "not json"])

\* C6: the stages run in the order resolve, fetch, render; a report line is
\* written only after get_credentials and fetch_usage both succeeded; a run in
\* which either failed ends with no report line, exactly one message on the
\* error stream and exit status 1; a run in which both succeeded ends with the
\* report and exit status 0.
C6_ReportOnlyAfterSuccess ==
    /\ pc \in {"start", "get_credentials"} =>
         (creds = None /\ usage = None /\ http_log = <<>>)
    /\ (IsSome(usage) \/ http_log # <<>>) => IsSome(creds)
    /\ ReportLines # <<>> =>
         (IsSome(creds) /\ IsSome(usage) /\ error = None /\ pc = "exited")
    /\ pc # "exited" => (exit_code = None /\ errout = <<>>)
    /\ pc = "exited" =>
         IF IsSome(creds) /\ IsSome(usage)
         THEN /\ error = None
              /\ exit_code = Some(0)
              /\ errout = <<>>
              /\ ReportLines # <<>>
         ELSE /\ IsSome(error)
              /\ ReportLines = <<>>
              /\ Len(errout) = 1
              /\ exit_code = Some(1)

\* a Fancy run whose fetch was refused ended with the indicator as its only
\* output, one error message and status 1
C6_Witness ==
    /\ pc = "exited"
    /\ ~plain
    /\ IsSome(creds)
    /\ error = Some([kind |-> "Unauthorized", status |-> 401])
    /\ out = <<[kind |-> "blank"], [kind |-> "indicator"]>>
    /\ Len(errout) = 1
    /\ exit_code = Some(1)

\* file i parses to a structure with a usable plain key and no usable token
FileKeyOnly(i) ==
    /\ IsSome(FileYield(i))
    /\ ~Unwrap(FileYield(i)).is_oauth

Shadowed(lastSource) ==
    /\ http_log = <<>>
    /\ response = None
    /\ ReportLines = <<>>
    /\ ProbedSources \subseteq 1..lastSource
    /\ pc = "exited" =>
         /\ ProbedSources = 1..lastSource
         /\ error = ApiKeyUnsupported
         /\ exit_code = Some(1)

\* C10: when CODEX_ACCESS_TOKEN is unset or blank and OPENAI_API_KEY is
\* non-blank, or both are unset or blank and the first usable credential file
\* holds only a plain key, no later source is probed, no request is sent, no
\* report line is printed, and the run ends with the API-key-unsupported error
\* and exit status 1, whatever the later sources hold.
C10_ApiKeyShadowsOAuth ==
    /\ (~IsSome(EnvValue("CODEX_ACCESS_TOKEN")) /\ IsSome(EnvValue("OPENAI_API_KEY")))
         => Shadowed(2)
    /\ \A i \in 1..Len(candidates) :
         ( /\ ~IsSome(EnvValue("CODEX_ACCESS_TOKEN"))
           /\ ~IsSome(EnvValue("OPENAI_API_KEY"))
           /\ \A h \in 1..(i - 1) : ~IsSome(FileYield(h))
           /\ FileKeyOnly(i) )
         => Shadowed(i + 2)

\* the API-key variable won over an OAuth token in the primary file and one in
\* the secret store, and the run ended with the error
C10_Witness ==
    /\ pc = "exited"
    /\ ~IsSome(EnvValue("CODEX_ACCESS_TOKEN"))
    /\ IsSome(env["CODEX_ACCESS_TOKEN"])
    /\ IsSome(EnvValue("OPENAI_API_KEY"))
    /\ IsSome(FileYield(1)) /\ Unwrap(FileYield(1)).is_oauth
    /\ ~AliasMiss(1)
    /\ probes = <<"env:CODEX_ACCESS_TOKEN", "env:OPENAI_API_KEY">>
    /\ error = ApiKeyUnsupported
    /\ exit_code = Some(1)

\* the plain key of the primary file won over an OAuth token in the secondary
C10_FileWitness ==
    /\ pc = "exited"
    /\ FileKeyOnly(1)
    /\ IsSome(FileYield(2)) /\ Unwrap(FileYield(2)).is_oauth
    /\ ~Probed("exists:" \o candidates[2])
    /\ error = ApiKeyUnsupported

-----------------------------------------------------------------------------
(* The Fancy summary *)

IsSummaryLine(l) == l.kind = "summary"

SummaryLines == SelectSeq(out, IsSummaryLine)

\* used_percent of a window as the claim counts it: 0 when the window or the
\* figure is absent
CountedUsed(w) == IF w = None \/ Unwrap(w).used_percent = None THEN 0
                  ELSE Unwrap(Unwrap(w).used_percent)

SetMax(S) == CHOOSE m \in S : \A x \in S : x <= m

ClaimedMaximum(u) ==
    IF u.rate_limit = None THEN 0
    ELSE SetMax({CountedUsed(Unwrap(u.rate_limit).primary_window),
                 CountedUsed(Unwrap(u.rate_limit).secondary_window)})

ClaimedLimitReached(u) ==
    u.rate_limit # None /\ Unwrap(u.rate_limit).limit_reached = Some(TRUE)

ClaimedTier(u) ==
    IF ClaimedLimitReached(u) \/ ClaimedMaximum(u) >= 100 THEN "limit reached"
    ELSE IF ClaimedMaximum(u) >= 90 THEN "nearly at limit"
    ELSE IF ClaimedMaximum(u) >= 70 THEN "elevated"
    ELSE "plenty of capacity"

\* C8: a Fancy report ends with exactly one summary line, of the tier given by
\* the maximum used_percent of the two windows (absent counting as 0):
\* limit_reached or >= 100 "limit reached", else >= 90 "nearly at limit", else
\* >= 70 "elevated", else "plenty of capacity".
C8_SummaryTier ==
    (pc = "exited" /\ ~plain /\ IsSome(usage)) =>
      /\ Len(SummaryLines) = 1
      /\ SummaryLines[1].tier = ClaimedTier(Unwrap(usage))
      /\ SummaryLines[1].tier \in {"limit reached", "nearly at limit", "elevated",
                                   "plenty of capacity"}

\* the maximum is exactly 90, from the secondary window, and the line printed
\* is "nearly at limit"
C8_Witness ==
    /\ pc = "exited" /\ ~plain /\ IsSome(usage)
    /\ ~ClaimedLimitReached(Unwrap(usage))
    /\ CountedUsed(primary_of(Unwrap(usage))) = 70
    /\ CountedUsed(secondary_of(Unwrap(usage))) = 90
    /\ SummaryLines = <<[kind |-> "summary", tier |-> "nearly at limit"]>>

====
